---- MODULE Spec2Model ----
(***************************************************************************)
(* lipsi: pitch-class set operations (src/src/lib.rs).                     *)
(*                                                                         *)
(* The library is a set of pure functions over PcSet = Vec<i8>.  Each      *)
(* function is an operator below, computed the way the Rust code computes  *)
(* it: `%` is Rust's truncated remainder, i8 additions and subtractions    *)
(* keep their 8-bit width, Vec comparison is the lexicographic order of    *)
(* slices.  The state machine is a caller: it holds the receiver S, the    *)
(* second operand T, and the name, argument and return value of the last   *)
(* call.                                                                   *)
(***************************************************************************)
EXTENDS Integers, Sequences, FiniteSets

VARIABLES S, T, op, arg, ret, panicked

vars == <<S, T, op, arg, ret, panicked>>

---------------------------------------------------------------------------
(* Bounds of the model *)

\* longest receiver of the one-operand calls
MaxLen == 3
\* longest operand of the two-operand calls (transposition_number, index_number)
MaxPairLen == 2
\* largest pitch class of the second operand of the two-operand calls
MaxOtherPc == 3
\* longest raw (not pre-reduced) receiver
MaxRawLen == 2
\* raw values range over -RawSpan .. 11 + RawSpan
RawSpan == 14

---------------------------------------------------------------------------
(* Machine arithmetic *)

\* i8::MAX; i8::MIN is -(I8Max + 1)
I8Max == 127

\* the number of pitch classes, the modulus of every `% 12`
Octave == 12

\* two's-complement wrap-around of an i8 result (overflow checks off)
Wrap8(v) == ((v + I8Max + 1) % (2 * (I8Max + 1))) - (I8Max + 1)

\* the mathematical result does not fit an i8 (panics when overflow checks are on)
Overflows(v) == v < -(I8Max + 1) \/ v > I8Max

\* Rust's `a % b` for b > 0: the remainder takes the sign of a
TruncRem(a, b) == IF a >= 0 THEN a % b ELSE -((-a) % b)

\* Option<i8>
None == << >>
Some(v) == <<v>>

\* `<` of Vec<i8>: element-wise, a proper prefix is smaller
RECURSIVE LexLess(_, _)
LexLess(a, b) ==
    IF a = << >> THEN b # << >>
    ELSE IF b = << >> THEN FALSE
    ELSE IF Head(a) < Head(b) THEN TRUE
    ELSE IF Head(a) > Head(b) THEN FALSE
    ELSE LexLess(Tail(a), Tail(b))

\* slice::contains
contains(self, x) == \E i \in DOMAIN self : self[i] = x

\* iter().filter(|&x| *x == v).count()
count(v, seq) == Cardinality({i \in DOMAIN seq : seq[i] = v})

---------------------------------------------------------------------------
(* Fundamentals *)

\* self.iter().map(|x| (12 - x) % 12)
invert(self) ==
    [i \in DOMAIN self |-> TruncRem(Wrap8(Octave - self[i]), Octave)]

invertOverflows(self) == \E i \in DOMAIN self : Overflows(Octave - self[i])

\* self.iter().map(|x| ((x + n) % 12 + 12) % 12)
transpose(self, n) ==
    [i \in DOMAIN self |->
        TruncRem(TruncRem(Wrap8(self[i] + n), Octave) + Octave, Octave)]

transposeOverflows(self, n) == \E i \in DOMAIN self : Overflows(self[i] + n)

\* self.invert().transpose(n)
tni(self, n) == transpose(invert(self), n)

\* the fold of chroma: residues 11 down to 0, acc = (acc << 1) | bit, in a u16
RECURSIVE chromaFold(_, _, _)
chromaFold(self, x, acc) ==
    IF x < 0 THEN acc
    ELSE chromaFold(self, x - 1,
            ((acc * 2) % 65536) + (IF contains(self, x) THEN 1 ELSE 0))

chroma(self) == chromaFold(self, Octave - 1, 0)

---------------------------------------------------------------------------
(* SetOperations *)

\* the inner while loop of sort: shift larger elements up, then place temp
\* (j is the 0-based index of the code; clone[j + 1] is its clone[j])
RECURSIVE sortShift(_, _, _)
sortShift(clone, j, temp) ==
    IF j > 0 /\ clone[j] > temp
    THEN sortShift([clone EXCEPT ![j + 1] = clone[j]], j - 1, temp)
    ELSE [clone EXCEPT ![j + 1] = temp]

\* the outer for loop of sort, from index i on
RECURSIVE sortFrom(_, _)
sortFrom(clone, i) ==
    IF i >= Len(clone) THEN clone
    ELSE sortFrom(sortShift(clone, i, clone[i + 1]), i + 1)

sort(self) == sortFrom(self, 0)

\* Vec::dedup: consecutive equal elements collapse to one
RECURSIVE dedup(_)
dedup(v) ==
    IF Len(v) <= 1 THEN v
    ELSE IF v[1] = v[2] THEN dedup(Tail(v))
    ELSE <<v[1]>> \o dedup(Tail(v))

\* self.iter().cycle().skip(n + 1).take(self.len())
rotate(self, n) ==
    [k \in DOMAIN self |-> self[((n + 1 + (k - 1)) % Len(self)) + 1]]

\* transpose(12 - head); the empty set is returned as it is
zero(self) ==
    IF self = << >> THEN self
    ELSE transpose(self, Wrap8(Octave - Head(self)))

\* the elements in reverse order, each as ((x - first) % 12 + 12) % 12
intervals(self) ==
    IF self = << >> THEN << >>
    ELSE [k \in DOMAIN self |->
            TruncRem(TruncRem(Wrap8(self[Len(self) + 1 - k] - Head(self)), Octave)
                     + Octave, Octave)]

\* normal's fold step with `>=` for `>`: of two equal candidates the later wins
normalPickLast(x, y) == IF LexLess(intervals(x), intervals(y)) THEN x ELSE y

\* one step of normal's fold: keep x unless its intervals are greater than y's
normalPick(x, y) == IF LexLess(intervals(y), intervals(x)) THEN y ELSE x

\* normal's fold over the rotation indices x .. n - 1 with accumulator acc
RECURSIVE normalFold(_, _, _, _)
normalFold(sorted, x, n, acc) ==
    IF x >= n THEN acc
    ELSE normalFold(sorted, x + 1, n, normalPick(acc, rotate(sorted, x)))

normal(self) ==
    LET sorted == dedup(sort(self))
    IN  normalFold(sorted, 0, Len(self), sorted)

reduced(self) == zero(normal(self))

\* prime's choice with the comparison turned round: the larger vector wins
primePickLarger(a, b) == IF LexLess(intervals(b), intervals(a)) THEN a ELSE b

\* if a.intervals() < b.intervals() { a } else { b }
primePick(a, b) == IF LexLess(intervals(a), intervals(b)) THEN a ELSE b

prime(self) == primePick(zero(normal(self)), zero(normal(invert(self))))

\* Iterator::zip stops with the shorter of the two
zipDomain(self, other) ==
    1..(IF Len(self) <= Len(other) THEN Len(self) ELSE Len(other))

\* the differences with the mirrored sign, ((x - y) % 12 + 12) % 12
differencesMirrored(self, other) ==
    [i \in zipDomain(self, other) |->
        TruncRem(TruncRem(Wrap8(self[i] - other[i]), Octave) + Octave, Octave)]

\* zip + map of transposition_number: ((y - x) % 12 + 12) % 12
differences(self, other) ==
    [i \in zipDomain(self, other) |->
        TruncRem(TruncRem(Wrap8(other[i] - self[i]), Octave) + Octave, Octave)]

\* zip + map of index_number: ((x + y) % 12 + 12) % 12
sums(self, other) ==
    [i \in zipDomain(self, other) |->
        TruncRem(TruncRem(Wrap8(self[i] + other[i]), Octave) + Octave, Octave)]

\* the closing match without the all(): the first value is taken for all
uniformFirstOnly(v) == IF v = << >> THEN None ELSE Some(Head(v))

\* the closing match of both relation tests: the common value, if there is one
uniform(v) ==
    IF v = << >> THEN None
    ELSE IF \A i \in DOMAIN v : v[i] = Head(v) THEN Some(Head(v))
    ELSE None

\* transposition_number without the early return on a length mismatch
transposition_numberUnguarded(self, other) == uniform(differences(self, other))

transposition_number(self, other) ==
    IF Len(self) # Len(other) THEN None
    ELSE uniform(differences(self, other))

index_number(self, other) ==
    IF Len(self) # Len(other) THEN None
    ELSE uniform(sums(self, other))

---------------------------------------------------------------------------
(* SetAnalysis *)

\* the interval class of one pair in icvec: n = (x - head) % 12, folded if n > 6
icvecClass(x, head) ==
    LET n == TruncRem(Wrap8(x - head), Octave)
    IN  IF n > 6 THEN TruncRem(Octave - n, Octave) ELSE n

\* the inner fn f of icvec: the head against its tail, then f of the tail
RECURSIVE icvecF(_)
icvecF(pcset) ==
    IF pcset = << >> THEN << >>
    ELSE LET head == Head(pcset)
             tail == Tail(pcset)
         IN  [i \in DOMAIN tail |-> icvecClass(tail[i], head)] \o icvecF(tail)

icvec(self) == [k \in 1..6 |-> count(k, icvecF(self))]

\* flat_map of ivec: (y + x) % 12 for every x, and for every y
ivecIntervals(self) ==
    LET n == Len(self)
    IN  [i \in 1..(n * n) |->
            TruncRem(Wrap8(self[((i - 1) % n) + 1] + self[((i - 1) \div n) + 1]),
                     Octave)]

ivecOverflows(self) ==
    \E i, j \in DOMAIN self : Overflows(self[i] + self[j])

ivec(self) == [k \in 1..Octave |-> count(k - 1, ivecIntervals(self))]

---------------------------------------------------------------------------
(* The caller *)

\* every sequence over A of length at most k
SeqsUpTo(A, k) == UNION {[1..m -> A] : m \in 0..k}

\* the pitch classes
Pcs == 0..(Octave - 1)

\* the pitch classes the second operand of a relation test is drawn from
OtherPcs == 0..MaxOtherPc

\* raw integers a caller may pass without reducing them first
RawValues == (-RawSpan)..(Octave - 1 + RawSpan)

\* transposition amounts: the i8 extremes, the amounts around the overflow
\* threshold of 11 + n, and small amounts of both signs (the test uses -14)
Amounts == {-(I8Max + 1), -14, -1, 0, 1, 4, 7, Octave, 116, 117, I8Max}

\* One call S.name(a), made once per behaviour: no call leaves anything behind
\* for the next one.  The build decides what an i8 overflow does: with
\* overflow checks on the call panics and returns nothing, with them off the
\* arithmetic wraps around and `value` is returned.
Call(name, a, overflow, value) ==
    \E checks \in BOOLEAN :
        /\ op = "none"
        /\ op' = name
        /\ arg' = a
        /\ panicked' = (checks /\ overflow)
        /\ ret' = IF checks /\ overflow THEN << >> ELSE value
        /\ UNCHANGED <<S, T>>

Invert == Call("invert", 0, invertOverflows(S), invert(S))

Transpose ==
    \E n \in Amounts : Call("transpose", n, transposeOverflows(S, n), transpose(S, n))

Chroma == Call("chroma", 0, FALSE, <<chroma(S)>>)

Sort == Call("sort", 0, FALSE, sort(S))

Rotate == \E n \in 0..MaxLen : Call("rotate", n, FALSE, rotate(S, n))

\* the calls below are made on pitch classes in 0..11 only, where no
\* subtraction or addition of theirs leaves the i8 range
Zero == Call("zero", 0, FALSE, zero(S))

Intervals == Call("intervals", 0, FALSE, intervals(S))

Normal == Call("normal", 0, FALSE, normal(S))

Reduced == Call("reduced", 0, FALSE, reduced(S))

Prime == Call("prime", 0, FALSE, prime(S))

Icvec == Call("icvec", 0, FALSE, icvec(S))

Ivec == Call("ivec", 0, ivecOverflows(S), ivec(S))

\* One call S.name(&other) of a relation test.  Both operands hold pitch
\* classes in 0..11, so no difference or sum leaves the i8 range.
CallWith(name, other, value) ==
    /\ op = "none"
    /\ op' = name
    /\ T' = other
    /\ ret' = value
    /\ UNCHANGED <<S, arg, panicked>>

TranspositionNumber ==
    \E other \in SeqsUpTo(OtherPcs, MaxPairLen) :
        CallWith("transposition_number", other, transposition_number(S, other))

IndexNumber ==
    \E other \in SeqsUpTo(OtherPcs, MaxPairLen) :
        CallWith("index_number", other, index_number(S, other))

NoCall == op = "none" /\ arg = 0 /\ ret = << >> /\ panicked = FALSE

\* one-operand calls on a sequence of pitch classes
Init == S \in SeqsUpTo(Pcs, MaxLen) /\ T = << >> /\ NoCall

Next ==
    \/ Invert \/ Transpose \/ Chroma
    \/ Sort \/ Rotate \/ Zero \/ Intervals \/ Normal \/ Reduced \/ Prime
    \/ Icvec \/ Ivec

Spec == Init /\ [][Next]_vars

\* the arithmetic calls on raw, not pre-reduced integers
InitRaw == S \in SeqsUpTo(RawValues, MaxRawLen) /\ T = << >> /\ NoCall

NextRaw == Invert \/ Transpose \/ Ivec

SpecRaw == InitRaw /\ [][NextRaw]_vars

\* the relation tests on two sequences of pitch classes
InitPair == S \in SeqsUpTo(Pcs, MaxPairLen) /\ T = << >> /\ NoCall

NextPair == TranspositionNumber \/ IndexNumber

SpecPair == InitPair /\ [][NextPair]_vars

---------------------------------------------------------------------------
(* Vocabulary of the properties *)

\* the floored residue of v modulo 12
Mod12(v) == v % Octave

\* the sum of the entries of a count vector
RECURSIVE SumSeq(_)
SumSeq(v) == IF v = << >> THEN 0 ELSE Head(v) + SumSeq(Tail(v))

\* the elements of a sequence, as a set
Elems(v) == {v[i] : i \in DOMAIN v}

\* the elements of a set of integers in ascending order
RECURSIVE Ascending(_)
Ascending(A) ==
    IF A = {} THEN << >>
    ELSE LET m == CHOOSE x \in A : \A y \in A : x <= y
         IN  <<m>> \o Ascending(A \ {m})

\* v rotated left by r places
RotLeft(v, r) == [k \in DOMAIN v |-> v[((k - 1 + r) % Len(v)) + 1]]

\* every cyclic rotation of v
Rotations(v) == {RotLeft(v, r) : r \in 0..Len(v)}

\* a <= b in the lexicographic order of Vec<i8>
LexLeq(a, b) == ~LexLess(b, a)

\* every reordering of v
Permutations(v) ==
    {[i \in DOMAIN v |-> v[f[i]]] :
        f \in {g \in [DOMAIN v -> DOMAIN v] : \A i, j \in DOMAIN v : g[i] = g[j] => i = j}}

\* the candidates of normal's scan of S, in scan order: the sorted,
\* deduplicated S first, then its rotations of index 0, 1, 2, ...
ScanAt(k) ==
    IF k = 0 THEN Ascending(Elems(S)) ELSE rotate(Ascending(Elems(S)), k - 1)

---------------------------------------------------------------------------
(* C1 *)

\* C1: prime is a set-class invariant: the prime form of invert(S) and of
\* transpose(S, n), for every amount n, is the prime form of S.  (Read in the
\* claim's favour: a call that panics returns no set to compare.)
C1_PrimeSetClassInvariant ==
    (op \in {"invert", "transpose"} /\ ~panicked) => prime(ret) = prime(S)

\* The same for the amounts n that keep every x + n within the i8 range.
PrimeInvariantWithoutOverflow ==
    (op = "invert" \/ (op = "transpose" /\ ~transposeOverflows(S, arg)))
        => ~panicked /\ prime(ret) = prime(S)

---------------------------------------------------------------------------
(* C2 *)

\* C2: normal(S) is a rotation of the sorted, deduplicated S whose intervals
\* vector is the smallest of all rotations; of several rotations with that
\* smallest vector it is the one the scan meets first.
C2_NormalIsFirstSmallestRotation ==
    op = "normal" =>
        /\ ret \in Rotations(Ascending(Elems(S)))
        /\ \A c \in Rotations(Ascending(Elems(S))) :
               LexLeq(intervals(ret), intervals(c))
        /\ \E k \in 0..Len(S) :
               /\ ret = ScanAt(k)
               /\ \A j \in 0..(k - 1) : intervals(ScanAt(j)) # intervals(ret)

\* normal has returned on a set two of whose rotations tie for the smallest
\* intervals vector
C2_Witness ==
    /\ op = "normal"
    /\ \E c \in Rotations(Ascending(Elems(S))) :
           c # ret /\ intervals(c) = intervals(ret)

---------------------------------------------------------------------------
(* C3 *)

\* C3: the six entries of icvec(S) sum to m * (m - 1) / 2, m the number of
\* distinct pitch classes of S, whatever the order and the repeats of S.
C3_IcvecSumsToPairsOfDistinct ==
    op = "icvec" =>
        LET m == Cardinality(Elems(S))
        IN  SumSeq(ret) = (m * (m - 1)) \div 2

---------------------------------------------------------------------------
(* C4 *)

\* C4: chroma, icvec and ivec return the same for every reordering of S.
C4_FeaturesIgnoreOrder ==
    /\ op = "chroma" => \A P \in Permutations(S) : <<chroma(P)>> = ret
    /\ op = "icvec" => \A P \in Permutations(S) : icvec(P) = ret
    /\ op = "ivec" => \A P \in Permutations(S) : ivec(P) = ret

---------------------------------------------------------------------------
(* C5 *)

\* C5: as long as the 8-bit arithmetic does not overflow, every element of
\* invert(S) and of transpose(S, n) lies in 0..11, for raw S and any n.
C5_TransformsRenormalize ==
    /\ (op = "invert" /\ ~invertOverflows(S)) =>
           \A i \in DOMAIN ret : ret[i] \in Pcs
    /\ (op = "transpose" /\ ~transposeOverflows(S, arg)) =>
           \A i \in DOMAIN ret : ret[i] \in Pcs

---------------------------------------------------------------------------
(* C6 *)

\* C6: for non-empty S and T of one length, transposition_number(S, T) is
\* Some(n) exactly when transpose(S, n) is T; n is then the common value of
\* (T[i] - S[i]) mod 12, and the result is None when those values differ.
C6_TranspositionNumberIffTranspose ==
    (op = "transposition_number" /\ Len(S) = Len(T) /\ S # << >>) =>
        /\ \A n \in Pcs : (ret = Some(n)) <=> (transpose(S, n) = T)
        /\ ret # None => \A i \in DOMAIN S : Mod12(T[i] - S[i]) = ret[1]
        /\ (\E i, j \in DOMAIN S : Mod12(T[i] - S[i]) # Mod12(T[j] - S[j]))
               => ret = None

\* transposition_number has found a transposition other than the identity
\* between two sets of more than one element
C6_Witness ==
    /\ op = "transposition_number"
    /\ Len(S) > 1
    /\ ret # None
    /\ ret # Some(0)

---------------------------------------------------------------------------
(* C7 *)

\* C7: for non-empty S and T of one length, index_number(S, T) is Some(n)
\* exactly when tni(S, n) is T; n is then the common value of
\* (S[i] + T[i]) mod 12, and the result is None when those values differ.
C7_IndexNumberIffTni ==
    (op = "index_number" /\ Len(S) = Len(T) /\ S # << >>) =>
        /\ \A n \in Pcs : (ret = Some(n)) <=> (tni(S, n) = T)
        /\ ret # None => \A i \in DOMAIN S : Mod12(S[i] + T[i]) = ret[1]
        /\ (\E i, j \in DOMAIN S : Mod12(S[i] + T[i]) # Mod12(S[j] + T[j]))
               => ret = None

\* index_number has found an index other than 0 between two sets of more
\* than one element
C7_Witness ==
    /\ op = "index_number"
    /\ Len(S) > 1
    /\ ret # None
    /\ ret # Some(0)

---------------------------------------------------------------------------
(* C8 *)

\* some transposition carries S to T
RelatedByTn == \E n \in Pcs : transpose(S, n) = T

\* some inversion followed by a transposition carries S to T
RelatedByTnI == \E n \in Pcs : tni(S, n) = T

\* C8: both relation tests return None whenever the lengths differ, and
\* return None only if the lengths differ or no single operator carries S to
\* T; empty sequences included.
C8_NoneMeansMismatchOrUnrelated ==
    /\ op = "transposition_number" =>
           /\ Len(S) # Len(T) => ret = None
           /\ ret = None => (Len(S) # Len(T) \/ ~RelatedByTn)
    /\ op = "index_number" =>
           /\ Len(S) # Len(T) => ret = None
           /\ ret = None => (Len(S) # Len(T) \/ ~RelatedByTnI)

\* C8, amended: both relation tests return None whenever the lengths differ,
\* and return None only if the lengths differ, or S and T are both empty, or
\* no single operator carries S to T.
C8_NoneMeansMismatchEmptyOrUnrelated ==
    /\ op = "transposition_number" =>
           /\ Len(S) # Len(T) => ret = None
           /\ ret = None =>
                  (Len(S) # Len(T) \/ (S = << >> /\ T = << >>) \/ ~RelatedByTn)
    /\ op = "index_number" =>
           /\ Len(S) # Len(T) => ret = None
           /\ ret = None =>
                  (Len(S) # Len(T) \/ (S = << >> /\ T = << >>) \/ ~RelatedByTnI)

\* a relation test has returned None for two sets of the same, non-zero
\* length
C8_Witness ==
    /\ op \in {"transposition_number", "index_number"}
    /\ ret = None
    /\ Len(S) = Len(T)
    /\ S # << >>

---------------------------------------------------------------------------
(* C9 *)

\* C9: the twelve entries of ivec(S) sum to n * n, n the length of S as
\* supplied, raw and negative values included.
C9_IvecSumsToSquare ==
    op = "ivec" => ~panicked /\ SumSeq(ret) = Len(S) * Len(S)

---------------------------------------------------------------------------
(* C10 *)

\* C10: with a = zero(normal(S)) and b = zero(normal(invert(S))), prime(S) is
\* the one with the smaller intervals vector, and is a when the two vectors
\* are equal.
C10_PrimePicksSmallerTiesFavorA ==
    op = "prime" =>
        LET a == zero(normal(S))
            b == zero(normal(invert(S)))
        IN  ret = IF LexLeq(intervals(a), intervals(b)) THEN a ELSE b

\* prime has returned the form of the inversion, strictly smaller than that
\* of S itself
C10_Witness ==
    /\ op = "prime"
    /\ LexLess(intervals(zero(normal(invert(S)))), intervals(zero(normal(S))))
    /\ ret = zero(normal(invert(S)))

---------------------------------------------------------------------------
(* What the code does guarantee where C3, C5 and C9 fail *)

\* v is strictly ascending
StrictlyAscending(v) == \A i, j \in DOMAIN v : i < j => v[i] < v[j]

\* on a strictly ascending S the entries of icvec(S) sum to n * (n - 1) / 2
IcvecSumOnAscendingSets ==
    (op = "icvec" /\ StrictlyAscending(S)) =>
        SumSeq(ret) = (Len(S) * (Len(S) - 1)) \div 2

\* transpose re-normalizes raw values; invert does for raw values up to 12
RenormalizedWhereFloored ==
    /\ (op = "transpose" /\ ~transposeOverflows(S, arg)) =>
           \A i \in DOMAIN ret : ret[i] \in Pcs
    /\ (op = "invert" /\ \A i \in DOMAIN S : S[i] <= Octave) =>
           \A i \in DOMAIN ret : ret[i] \in Pcs

\* on raw values that are not negative the entries of ivec(S) sum to n * n
IvecSumOnNonNegative ==
    (op = "ivec" /\ \A i \in DOMAIN S : S[i] >= 0) =>
        ~panicked /\ SumSeq(ret) = Len(S) * Len(S)

====
